---- MODULE Spec2Model ----
(***************************************************************************)
(* bitStreamer: a bit-granular Reader (src/src/reader.rs) and Writer       *)
(* (src/src/writer.rs) over a byte stream, most significant bit first.     *)
(*                                                                         *)
(* A u8 is a number in 0..255 and its shifts are taken modulo 256.  A u128 *)
(* is the sequence of its 16 bytes, most significant first (to_be_bytes),  *)
(* so that all 128 bits are kept at their width.                           *)
(***************************************************************************)
EXTENDS Integers, Sequences, FiniteSets, TLC

VARIABLES
    stream,          \* reader: the bytes of the source, in order
    r_pos,           \* reader: bytes the source has handed out so far
    r_byte,          \* Reader.byte[0]
    r_byte_offset,   \* Reader.byte_offset
    r_last,          \* reader: the last operation called, with its argument
    r_res,           \* reader: its result: "Ok" or the error kind
    r_out,           \* reader: the value it returned (when "Ok")
    r_pre,           \* reader: bit position and fields before the last operation
    r_obs,           \* reader: fetches and extractions the last operation made
    r_bits,          \* reader: read_bit calls that returned a bit since Reader::new
    w_byte,          \* Writer.byte[0]
    w_byte_offset,   \* Writer.byte_offset
    sink,            \* writer: bytes self.writer accepted, in order
    w_flushed,       \* writer: how many of them a flush pushed through
    w_last,          \* writer: the last operation called
    w_res,           \* writer: its result: "Ok" or the error kind
    w_pre,           \* writer: fields and sink length before the last operation
    w_obs,           \* writer: sink writes the last operation tried, and a failure
    w_hist,          \* writer: shape of the history and the bits it wrote
    phase,           \* "write" | "read": which of the two objects is in use
    rt_log,          \* round trip: the writes made, in order
    rt_back          \* round trip: what the reads of them returned, in order

rvars == <<stream, r_pos, r_byte, r_byte_offset, r_last, r_res, r_out, r_pre, r_obs,
           r_bits>>
wvars == <<w_byte, w_byte_offset, sink, w_flushed, w_last, w_res, w_pre, w_obs, w_hist>>
svars == <<phase, rt_log, rt_back>>
vars == <<rvars, wvars, svars>>

----------------------------------------------------------------------------
(* Bounds of the model. *)

\* Longest source stream enumerated exhaustively over ByteVals.
MaxStreamLen == 2
\* write_bit and front_pad_to_byte are called while the session has put out
\* fewer than (front_pad_to_byte: at most) this many bits, in the sink or pending.
MaxBits == 10
\* A multi-bit write is started with fewer than this many bits written before.
MaxLead == 4
\* Most writes of a round trip.
MaxWrites == 2
\* A fetch or a sink write of an operation up to this index may be made to fail.
MaxFailAt == 2

ByteVals == {0, 85, 251}

----------------------------------------------------------------------------
(* Arithmetic on u8 and u128. *)

U8Max == 255
U128Bytes == 16
\* The widest read_bits / write_bits accepted (number_of_bits > 128 is refused).
MaxWidth == 128

RECURSIVE Pow2(_)
Pow2(n) == IF n = 0 THEN 1 ELSE 2 * Pow2(n - 1)

\* u8 << 1
Shl8(b) == (b * 2) % (U8Max + 1)

\* 0u128
Zero128 == <<0, 0, 0, 0, 0, 0, 0, 0, 0, 0, 0, 0, 0, 0, 0, 0>>

\* byte as u128
FromU8(b) == <<0, 0, 0, 0, 0, 0, 0, 0, 0, 0, 0, 0, 0, 0, 0, b>>

\* u128 as u8
AsU8(v) == v[U128Bytes]

\* Byte i of v << 1: its own bits moved up, and the top bit of the next byte.
Shl128Byte(v, i) ==
    Shl8(v[i]) + (IF i < U128Bytes THEN v[i + 1] \div 128 ELSE 0)

\* u128 << 1: the top bit falls off (written out byte by byte, as a tuple).
Shl128(v) ==
    << Shl128Byte(v, 1),  Shl128Byte(v, 2),  Shl128Byte(v, 3),  Shl128Byte(v, 4),
       Shl128Byte(v, 5),  Shl128Byte(v, 6),  Shl128Byte(v, 7),  Shl128Byte(v, 8),
       Shl128Byte(v, 9),  Shl128Byte(v, 10), Shl128Byte(v, 11), Shl128Byte(v, 12),
       Shl128Byte(v, 13), Shl128Byte(v, 14), Shl128Byte(v, 15), Shl128Byte(v, 16) >>

\* u128 | 0b1
Or1(v) ==
    [v EXCEPT ![U128Bytes] = IF v[U128Bytes] % 2 = 0 THEN v[U128Bytes] + 1
                                                    ELSE v[U128Bytes]]

\* bits & (1 << i) != 0, for 0 <= i < 128
TestBit(v, i) == (v[U128Bytes - (i \div 8)] \div Pow2(i % 8)) % 2 = 1

----------------------------------------------------------------------------
(* The Reader, src/src/reader.rs.  An operation runs on a record m of the   *)
(* Reader's fields (byte, byte_offset), the source's position (pos), what   *)
(* the source will do (fail: which of the operation's reads of the source   *)
(* returns an I/O error, 0 for none), the error the operation ends with     *)
(* (err) and three observations: the bytes it fetched, the largest          *)
(* byte_offset at which it extracted a bit (-1: none) and whether a read of *)
(* the source returned an error.                                            *)

NoValue == <<>>

Dec(k) == IF k > 0 THEN k - 1 ELSE 0

\* Reader::new: nothing is read; byte_offset = 8 marks the buffer exhausted.
ReaderNew ==
    [byte |-> 0, byte_offset |-> 8]

\* Refill without `self.byte_offset = 0`.
Refill_keeps_offset(m) ==
    IF m.fail = 1
    THEN [m EXCEPT !.err = "IoError", !.fail = 0, !.srcfail = TRUE]
    ELSE IF m.pos = Len(stream)
    THEN [m EXCEPT !.err = "UnexpectedEof", !.fail = Dec(m.fail)]
    ELSE [m EXCEPT !.byte = stream[m.pos + 1], !.pos = m.pos + 1,
                   !.fetches = m.fetches + 1, !.fail = Dec(m.fail)]

\* Refill without the n == 0 test: at the end of the source the old byte is
\* read again.
Refill_ignores_eof(m) ==
    IF m.fail = 1
    THEN [m EXCEPT !.err = "IoError", !.fail = 0, !.srcfail = TRUE]
    ELSE IF m.pos = Len(stream)
    THEN [m EXCEPT !.byte_offset = 0, !.fail = Dec(m.fail)]
    ELSE [m EXCEPT !.byte = stream[m.pos + 1], !.pos = m.pos + 1,
                   !.byte_offset = 0, !.fetches = m.fetches + 1,
                   !.fail = Dec(m.fail)]

\* self.reader.read(&mut self.byte)? and the n == 0 test of read_bit.
Refill(m) ==
    IF m.fail = 1
    THEN [m EXCEPT !.err = "IoError", !.fail = 0, !.srcfail = TRUE]
    ELSE IF m.pos = Len(stream)
    THEN [m EXCEPT !.err = "UnexpectedEof", !.fail = Dec(m.fail)]
    ELSE [m EXCEPT !.byte = stream[m.pos + 1], !.pos = m.pos + 1,
                   !.byte_offset = 0, !.fetches = m.fetches + 1,
                   !.fail = Dec(m.fail)]

\* extract_bit without `self.byte[0] <<= 1`: the front bit stays in front.
extract_bit_no_shift(m, byte) ==
    [m EXCEPT !.bit = (byte \div 128) % 2 = 1,
              !.byte_offset = m.byte_offset + 1,
              !.ext_max = IF m.byte_offset > m.ext_max THEN m.byte_offset
                                                       ELSE m.ext_max]

\* extract_bit(&mut self, byte): the front bit of `byte`; self.byte[0] <<= 1.
extract_bit(m, byte) ==
    [m EXCEPT !.bit = (byte \div 128) % 2 = 1,
              !.byte = Shl8(m.byte),
              !.byte_offset = m.byte_offset + 1,
              !.ext_max = IF m.byte_offset > m.ext_max THEN m.byte_offset
                                                       ELSE m.ext_max]

\* read_bit fetching the next byte as soon as the buffered one is used up.
read_bit_eager_refill(m) ==
    LET m1 == IF m.byte_offset = 8 THEN Refill(m) ELSE m
        m2 == extract_bit(m1, m1.byte)
        m3 == [m2 EXCEPT !.reads = m2.reads + 1]
    IN  IF m1.err # "Ok" THEN m1
        ELSE IF m3.byte_offset = 8 /\ m3.pos < Len(stream)
        THEN [m3 EXCEPT !.byte = stream[m3.pos + 1], !.pos = m3.pos + 1,
                        !.byte_offset = 0, !.fetches = m3.fetches + 1]
        ELSE m3

\* Each call that returns Ok(bit) is counted in m.reads.
read_bit(m) ==
    LET m1 == IF m.byte_offset = 8 THEN Refill(m) ELSE m
        m2 == extract_bit(m1, m1.byte)
    IN  IF m1.err # "Ok" THEN m1 ELSE [m2 EXCEPT !.reads = m2.reads + 1]

\* read_bits_step with the bit or-ed in before the shift.
read_bits_step_or_first(m) ==
    IF m.err # "Ok" THEN m
    ELSE LET m1 == read_bit(m)
         IN  IF m1.err # "Ok" THEN [m1 EXCEPT !.out = NoValue]
             ELSE [m1 EXCEPT !.out = Shl128(IF m1.bit THEN Or1(m.out) ELSE m.out)]

\* read_bits_step taking the end of the source for a 0 bit: the value is
\* filled up with zeros.
read_bits_step_zero_fill(m) ==
    IF m.err # "Ok" THEN m
    ELSE LET shifted == Shl128(m.out)
             m1 == read_bit(m)
         IN  IF m1.err = "UnexpectedEof" THEN [m1 EXCEPT !.err = "Ok", !.out = shifted]
             ELSE IF m1.err # "Ok" THEN [m1 EXCEPT !.out = NoValue]
             ELSE [m1 EXCEPT !.out = IF m1.bit THEN Or1(shifted) ELSE shifted]

\* One iteration of the loop of read_bits, the output so far in m.out.  The
\* `?` leaves the loop at the first error: an iteration after it does nothing.
read_bits_step(m) ==
    IF m.err # "Ok" THEN m
    ELSE LET shifted == Shl128(m.out)
             m1 == read_bit(m)
         IN  IF m1.err # "Ok" THEN [m1 EXCEPT !.out = NoValue]
             ELSE [m1 EXCEPT !.out = IF m1.bit THEN Or1(shifted) ELSE shifted]

\* `count` iterations in order: the first half of them, then, unless that
\* ended in an error, the rest (halved to keep the evaluation shallow).
RECURSIVE read_bits_loop(_, _)
read_bits_loop(m, count) ==
    IF count = 0 THEN m
    ELSE IF count = 1 THEN read_bits_step(m)
    ELSE LET half == read_bits_loop(m, count \div 2)
         IN  IF half.err # "Ok" THEN half
             ELSE read_bits_loop(half, count - (count \div 2))

\* read_bits refusing number_of_bits >= 128.
read_bits_refuses_128(m, number_of_bits) ==
    IF number_of_bits >= MaxWidth
    THEN [m EXCEPT !.err = "InvalidData", !.out = NoValue]
    ELSE read_bits_loop([m EXCEPT !.out = Zero128], number_of_bits)

\* read_bits finding the width too large only after MaxWidth bits were read.
read_bits_checks_late(m, number_of_bits) ==
    IF number_of_bits > MaxWidth
    THEN LET m1 == read_bits_loop([m EXCEPT !.out = Zero128], MaxWidth)
         IN  IF m1.err # "Ok" THEN m1
             ELSE [m1 EXCEPT !.err = "InvalidData", !.out = NoValue]
    ELSE read_bits_loop([m EXCEPT !.out = Zero128], number_of_bits)

read_bits(m, number_of_bits) ==
    IF number_of_bits > MaxWidth
    THEN [m EXCEPT !.err = "InvalidData", !.out = NoValue]
    ELSE read_bits_loop([m EXCEPT !.out = Zero128], number_of_bits)

read_byte(m) ==
    LET m1 == read_bits(m, 8)
    IN  IF m1.err # "Ok" THEN m1 ELSE [m1 EXCEPT !.out = AsU8(m1.out)]

\* One iteration of the loop of read_bytes, the Vec so far in m.vec.
read_bytes_step(m) ==
    IF m.err # "Ok" THEN m
    ELSE LET m1 == read_byte(m)
         IN  IF m1.err # "Ok" THEN m1
             ELSE [m1 EXCEPT !.vec = Append(m.vec, m1.out)]

RECURSIVE read_bytes_loop(_, _)
read_bytes_loop(m, count) ==
    IF count = 0 THEN m
    ELSE IF count = 1 THEN read_bytes_step(m)
    ELSE LET half == read_bytes_loop(m, count \div 2)
         IN  IF half.err # "Ok" THEN half
             ELSE read_bytes_loop(half, count - (count \div 2))

\* read_bytes with the count tested after the body of the loop: one byte is
\* read also for a count of 0.
read_bytes_at_least_one(m, number_of_bytes) ==
    LET m1 == read_bytes_loop([m EXCEPT !.vec = <<>>],
                              IF number_of_bytes = 0 THEN 1 ELSE number_of_bytes)
    IN  IF m1.err # "Ok" THEN [m1 EXCEPT !.out = NoValue]
        ELSE [m1 EXCEPT !.out = m1.vec]

read_bytes(m, number_of_bytes) ==
    LET m1 == read_bytes_loop([m EXCEPT !.vec = <<>>], number_of_bytes)
    IN  IF m1.err # "Ok" THEN [m1 EXCEPT !.out = NoValue]
        ELSE [m1 EXCEPT !.out = m1.vec]

\* The reader's fields as an operation finds them, with the source's plan.
RBegin(fail) ==
    [byte |-> r_byte, byte_offset |-> r_byte_offset, pos |-> r_pos,
     fail |-> fail, err |-> "Ok", bit |-> FALSE, out |-> NoValue, vec |-> <<>>,
     fetches |-> 0, ext_max |-> -1, srcfail |-> FALSE, reads |-> 0]

\* The fields as the operation leaves them, and what its caller saw.
RCommit(m, call, value) ==
    /\ r_byte' = m.byte
    /\ r_byte_offset' = m.byte_offset
    /\ r_pos' = m.pos
    /\ r_last' = call
    /\ r_res' = m.err
    /\ r_out' = IF m.err = "Ok" THEN value ELSE NoValue
    /\ r_pre' = [byte |-> r_byte, byte_offset |-> r_byte_offset, pos |-> r_pos]
    /\ r_obs' = [fetches |-> m.fetches, ext_max |-> m.ext_max, srcfail |-> m.srcfail]
    /\ r_bits' = r_bits + m.reads
    /\ UNCHANGED <<stream, wvars>>

FailAts == 0..MaxFailAt

\* Widths passed to read_bits and write_bits, and counts passed to read_bytes.
Widths == {0, 1, 3, 8, 16, 64, 128, 129, 200}
Counts == {0, 1, 2}

\* The four operations as calls: the source fails at its read number f or not.
ReadBitCall(f) ==
    LET m == read_bit(RBegin(f)) IN RCommit(m, <<"read_bit", 1>>, m.bit)
ReadBitsCall(f, n) ==
    LET m == read_bits(RBegin(f), n) IN RCommit(m, <<"read_bits", n>>, m.out)
ReadByteCall(f) ==
    LET m == read_byte(RBegin(f)) IN RCommit(m, <<"read_byte", 1>>, m.out)
ReadBytesCall(f, n) ==
    LET m == read_bytes(RBegin(f), n) IN RCommit(m, <<"read_bytes", n>>, m.out)

ReadBit ==
    /\ phase = "read"
    /\ \E f \in FailAts : ReadBitCall(f)
    /\ UNCHANGED svars

ReadBits ==
    /\ phase = "read"
    /\ \E f \in FailAts, n \in Widths : ReadBitsCall(f, n)
    /\ UNCHANGED svars

ReadByte ==
    /\ phase = "read"
    /\ \E f \in FailAts : ReadByteCall(f)
    /\ UNCHANGED svars

ReadBytes ==
    /\ phase = "read"
    /\ \E f \in FailAts, n \in Counts : ReadBytesCall(f, n)
    /\ UNCHANGED svars

----------------------------------------------------------------------------
(* Source streams a Reader is opened on. *)

RECURSIVE SeqsUpTo(_, _)
SeqsUpTo(S, n) ==
    IF n = 0 THEN {<<>>}
    ELSE LET shorter == SeqsUpTo(S, n - 1)
         IN  shorter \cup {Append(s, x) : s \in shorter, x \in S}

\* read_bits_u16's stream, and one of 17 bytes for the wide reads: the 8 bytes
\* of read_bits_u64, the last 8 of write_bytes_u128 and one byte more.
LongStream ==
    <<132, 195, 111, 255, 0, 165, 60, 5, 255, 255, 255, 255, 255, 254, 31, 13, 160>>

TestStreams == { <<132, 195>>, LongStream }

Streams == SeqsUpTo(ByteVals, MaxStreamLen) \cup TestStreams

WriterNew == [byte |-> 0, byte_offset |-> 0]

WIdle ==
    /\ w_byte = WriterNew.byte
    /\ w_byte_offset = WriterNew.byte_offset
    /\ sink = <<>>
    /\ w_flushed = 0
    /\ w_last = <<"new", 0>>
    /\ w_res = "Ok"
    /\ w_pre = [byte |-> 0, byte_offset |-> 0, len |-> 0, flushed |-> 0]
    /\ w_obs = [calls |-> 0, sinkfail |-> "none"]
    /\ w_hist = [shape |-> "bits", bits |-> <<>>]

ROpen(s) ==
    /\ stream = s
    /\ r_pos = 0
    /\ r_byte = ReaderNew.byte
    /\ r_byte_offset = ReaderNew.byte_offset
    /\ r_last = <<"new", 0>>
    /\ r_res = "Ok"
    /\ r_out = NoValue
    /\ r_pre = [byte |-> 0, byte_offset |-> 8, pos |-> 0]
    /\ r_obs = [fetches |-> 0, ext_max |-> -1, srcfail |-> FALSE]
    /\ r_bits = 0

\* A Reader over any of the streams; the Writer is not in use.
ReaderInit ==
    /\ phase = "read"
    /\ rt_log = <<>>
    /\ rt_back = <<>>
    /\ \E s \in Streams : ROpen(s)
    /\ WIdle

ReaderNext == ReadBit \/ ReadBits \/ ReadByte \/ ReadBytes

ReaderSpec == ReaderInit /\ [][ReaderNext]_vars

----------------------------------------------------------------------------
(* The Writer, src/src/writer.rs.  An operation runs on a record w of the   *)
(* Writer's fields (byte, byte_offset), the bytes the sink accepted (sink,  *)
(* of which `flushed` were pushed through), what the sink will do (fail:    *)
(* which of the operation's calls of the sink fails, 0 for none; kind: by   *)
(* accepting zero bytes or by an I/O error), the build (overflow checks on  *)
(* or off), the error the operation ends with (err) and two observations:   *)
(* the writes of the sink it tried (calls) and how the sink failed, if it   *)
(* did (sinkfail).                                                          *)

\* SinkWrite without the num_bytes_written == 0 test: the sink took nothing,
\* and the caller goes on as if it had taken the byte.
SinkWrite_accepts_zero(w, byte) ==
    IF w.fail = 1 /\ w.kind = "zero"
    THEN [w EXCEPT !.fail = 0, !.calls = w.calls + 1, !.sinkfail = w.kind]
    ELSE IF w.fail = 1
    THEN [w EXCEPT !.err = "IoError", !.fail = 0, !.calls = w.calls + 1,
                   !.sinkfail = w.kind]
    ELSE [w EXCEPT !.sink = Append(w.sink, byte), !.fail = Dec(w.fail),
                   !.calls = w.calls + 1]

\* self.writer.write(&self.byte)? and the num_bytes_written == 0 test.
SinkWrite(w, byte) ==
    IF w.fail = 1
    THEN [w EXCEPT !.err = IF w.kind = "zero" THEN "WriteZero" ELSE "IoError",
                   !.fail = 0, !.calls = w.calls + 1, !.sinkfail = w.kind]
    ELSE [w EXCEPT !.sink = Append(w.sink, byte), !.fail = Dec(w.fail),
                   !.calls = w.calls + 1]

\* write_bit with the bit or-ed in before the shift.
write_bit_or_first(w, write_one) ==
    LET ored == IF write_one THEN (w.byte - (w.byte % 2)) + 1 ELSE w.byte
        w1 == [w EXCEPT !.byte = Shl8(ored), !.byte_offset = w.byte_offset + 1]
    IN  IF w1.byte_offset = 8
        THEN LET w2 == SinkWrite(w1, w1.byte)
             IN  IF w2.err # "Ok" THEN w2
                 ELSE [w2 EXCEPT !.byte = 0, !.byte_offset = 0]
        ELSE w1

\* write_bit that hands over a full byte at the start of the next call instead
\* of at its eighth bit.
write_bit_lazy_emit(w, write_one) ==
    LET w0 == IF w.byte_offset = 8
              THEN LET w2 == SinkWrite(w, w.byte)
                   IN  IF w2.err # "Ok" THEN w2
                       ELSE [w2 EXCEPT !.byte = 0, !.byte_offset = 0]
              ELSE w
        shifted == Shl8(w0.byte)
        byte == IF write_one THEN (shifted - (shifted % 2)) + 1 ELSE shifted
    IN  IF w0.err # "Ok" THEN w0
        ELSE [w0 EXCEPT !.byte = byte, !.byte_offset = w0.byte_offset + 1]

\* self.byte[0] <<= 1 and |= 1, byte_offset += 1 and, at 8, the byte written:
\* the fields are reset only after the sink took the byte.
write_bit(w, write_one) ==
    LET shifted == Shl8(w.byte)
        byte == IF write_one THEN (shifted - (shifted % 2)) + 1 ELSE shifted
        w1 == [w EXCEPT !.byte = byte, !.byte_offset = w.byte_offset + 1]
    IN  IF w1.byte_offset = 8
        THEN LET w2 == SinkWrite(w1, w1.byte)
             IN  IF w2.err # "Ok" THEN w2
                 ELSE [w2 EXCEPT !.byte = 0, !.byte_offset = 0]
        ELSE w1

\* write_bits_step with the mask at 1 << (mask_location - 1): lowest bit first.
write_bits_step_lsb_first(w, bits, number_of_bits, mask_location) ==
    IF w.err # "Ok" THEN w
    ELSE write_bit(w, TestBit(bits, mask_location - 1))

\* write_bits_step with the mask counted down from the top bit of the u128.
write_bits_step_from_top(w, bits, number_of_bits, mask_location) ==
    IF w.err # "Ok" THEN w
    ELSE write_bit(w, TestBit(bits, 8 * U128Bytes - mask_location))

\* Iteration mask_location of the loop of write_bits; nothing after an error.
write_bits_step(w, bits, number_of_bits, mask_location) ==
    IF w.err # "Ok" THEN w
    ELSE write_bit(w, TestBit(bits, number_of_bits - mask_location))

\* Iterations first..last in order (halved to keep the evaluation shallow).
RECURSIVE write_bits_loop(_, _, _, _, _)
write_bits_loop(w, bits, number_of_bits, first, last) ==
    IF first > last THEN w
    ELSE IF first = last THEN write_bits_step(w, bits, number_of_bits, first)
    ELSE LET mid == (first + last) \div 2
             half == write_bits_loop(w, bits, number_of_bits, first, mid)
         IN  IF half.err # "Ok" THEN half
             ELSE write_bits_loop(half, bits, number_of_bits, mid + 1, last)

write_bits(w, bits, number_of_bits) ==
    IF number_of_bits > MaxWidth
    THEN [w EXCEPT !.err = "InvalidData"]
    ELSE write_bits_loop(w, bits, number_of_bits, 1, number_of_bits)

write_byte(w, byte) == write_bits(w, FromU8(byte), 8)

RECURSIVE write_bytes_loop(_, _, _, _)
write_bytes_loop(w, bytes, first, last) ==
    IF first > last THEN w
    ELSE IF first = last
    THEN (IF w.err # "Ok" THEN w ELSE write_byte(w, bytes[first]))
    ELSE LET mid == (first + last) \div 2
             half == write_bytes_loop(w, bytes, first, mid)
         IN  IF half.err # "Ok" THEN half
             ELSE write_bytes_loop(half, bytes, mid + 1, last)

write_bytes(w, bytes) == write_bytes_loop(w, bytes, 1, Len(bytes))

\* A width above MaxWidth, standing for the wrapped 8 - byte_offset (2^64 less
\* the excess on a 64-bit target), which write_bits refuses like any other.
WrappedWidth == 2 * MaxWidth

\* pad_to_byte without the byte_offset != 0 test.
pad_to_byte_always(w) ==
    IF w.byte_offset > 8
    THEN IF w.build = "debug" THEN [w EXCEPT !.err = "panic"]
         ELSE write_bits(w, Zero128, WrappedWidth)
    ELSE write_bits(w, Zero128, 8 - w.byte_offset)

\* 8 - self.byte_offset in usize: with byte_offset above 8 the subtraction
\* overflows, a panic with overflow checks and a wrapped width without.
pad_to_byte(w) ==
    IF w.byte_offset # 0
    THEN IF w.byte_offset > 8
         THEN IF w.build = "debug" THEN [w EXCEPT !.err = "panic"]
              ELSE write_bits(w, Zero128, WrappedWidth)
         ELSE write_bits(w, Zero128, 8 - w.byte_offset)
    ELSE w

\* front_pad_to_byte padding like pad_to_byte: the pending bits moved up.
front_pad_to_byte_left(w) ==
    LET w1 == SinkWrite(w, (w.byte * Pow2(8 - (w.byte_offset % 8))) % (U8Max + 1))
    IN  IF w1.err # "Ok" THEN w1
        ELSE [w1 EXCEPT !.byte = 0, !.byte_offset = 0]

\* The pending byte handed to the sink as it is, then the fields reset.
front_pad_to_byte(w) ==
    LET w1 == SinkWrite(w, w.byte)
    IN  IF w1.err # "Ok" THEN w1
        ELSE [w1 EXCEPT !.byte = 0, !.byte_offset = 0]

\* self.writer.flush(): the sink pushes through what it accepted, or fails.
SinkFlush(w) ==
    IF w.fail = 1
    THEN [w EXCEPT !.err = IF w.kind = "zero" THEN "WriteZero" ELSE "IoError",
                   !.fail = 0, !.sinkfail = w.kind]
    ELSE [w EXCEPT !.flushed = Len(w.sink), !.fail = Dec(w.fail)]

\* flush calling front_pad_to_byte for pad_to_byte.
flush_front_pads(w) ==
    LET w1 == front_pad_to_byte(w)
    IN  IF w1.err # "Ok" THEN w1 ELSE SinkFlush(w1)

flush(w) ==
    LET w1 == pad_to_byte(w)
    IN  IF w1.err # "Ok" THEN w1 ELSE SinkFlush(w1)

\* What the sink does during one operation, and the build.
SinkPlans ==
    {[fail |-> 0, kind |-> "err"]}
        \cup [fail : 1..MaxFailAt, kind : {"zero", "err"}]
Builds == {"debug", "release"}
\* The builds that differ for a writer at this offset: they do only where
\* 8 - byte_offset overflows.
BuildsAt(offset) == IF offset > 8 THEN Builds ELSE {"release"}

\* The writer's fields as an operation finds them.
WBegin(plan, build) ==
    [byte |-> w_byte, byte_offset |-> w_byte_offset, sink |-> sink,
     flushed |-> w_flushed, fail |-> plan.fail, kind |-> plan.kind,
     build |-> build, err |-> "Ok", calls |-> 0, sinkfail |-> "none"]

\* The history after a call: while every call was a write_bit that succeeded
\* ("bits") the bits are kept, and through one flush after them ("flushed").
HistAfter(w, call) ==
    IF w.err = "Ok" /\ w_hist.shape = "bits" /\ call[1] = "write_bit"
    THEN [shape |-> "bits", bits |-> Append(w_hist.bits, call[2])]
    ELSE IF w.err = "Ok" /\ w_hist.shape = "bits" /\ call[1] = "flush"
    THEN [shape |-> "flushed", bits |-> w_hist.bits]
    ELSE [shape |-> "mixed", bits |-> <<>>]

\* The fields as the operation leaves them, and what its caller saw.
WCommit(w, call) ==
    /\ w_byte' = w.byte
    /\ w_byte_offset' = w.byte_offset
    /\ sink' = w.sink
    /\ w_flushed' = w.flushed
    /\ w_last' = call
    /\ w_res' = w.err
    /\ w_pre' = [byte |-> w_byte, byte_offset |-> w_byte_offset, len |-> Len(sink),
                 flushed |-> w_flushed]
    /\ w_obs' = [calls |-> w.calls, sinkfail |-> w.sinkfail]
    /\ w_hist' = HistAfter(w, call)
    /\ UNCHANGED rvars

\* Values and byte sequences passed to the writer.
TestNum == <<255, 255, 255, 255, 255, 255, 255, 255, 255, 255, 255, 255, 255, 254, 31, 13>>
Values == { FromU8(5), TestNum,
            <<132, 195, 111, 255, 0, 165, 60, 5, 0, 0, 0, 0, 0, 0, 251, 85>> }
ByteSeqs == SeqsUpTo(ByteVals, MaxStreamLen)

\* Bits the session has put out so far: in the sink's bytes and pending.
BitsSoFar == 8 * Len(sink) + w_byte_offset

\* A writer that panicked is gone; a session ends at its bounds.
WAlive == phase = "write" /\ w_res # "panic"
WMayWriteBit == WAlive /\ BitsSoFar < MaxBits
WMayWriteMany == WAlive /\ BitsSoFar < MaxLead

\* The seven operations as calls, under a plan of the sink.
WriteBitCall(plan, write_one) ==
    WCommit(write_bit(WBegin(plan, "release"), write_one),
            <<"write_bit", IF write_one THEN 1 ELSE 0>>)
WriteBitsCall(plan, v, n) ==
    WCommit(write_bits(WBegin(plan, "release"), v, n), <<"write_bits", v, n>>)
WriteByteCall(plan, b) ==
    WCommit(write_byte(WBegin(plan, "release"), b), <<"write_byte", b>>)
WriteBytesCall(plan, bs) ==
    WCommit(write_bytes(WBegin(plan, "release"), bs), <<"write_bytes", bs>>)
PadToByteCall(plan, build) ==
    WCommit(pad_to_byte(WBegin(plan, build)), <<"pad_to_byte", 0>>)
FrontPadToByteCall(plan) ==
    WCommit(front_pad_to_byte(WBegin(plan, "release")), <<"front_pad_to_byte", 0>>)
FlushCall(plan, build) ==
    WCommit(flush(WBegin(plan, build)), <<"flush", 0>>)

WriteBit ==
    /\ WMayWriteBit
    /\ \E plan \in SinkPlans, write_one \in BOOLEAN : WriteBitCall(plan, write_one)
    /\ UNCHANGED svars

WriteBits ==
    /\ WMayWriteMany
    /\ \E plan \in SinkPlans, v \in Values, n \in Widths : WriteBitsCall(plan, v, n)
    /\ UNCHANGED svars

WriteByte ==
    /\ WMayWriteMany
    /\ \E plan \in SinkPlans, b \in ByteVals : WriteByteCall(plan, b)
    /\ UNCHANGED svars

WriteBytes ==
    /\ WMayWriteMany
    /\ \E plan \in SinkPlans, bs \in ByteSeqs : WriteBytesCall(plan, bs)
    /\ UNCHANGED svars

PadToByte ==
    /\ WAlive
    /\ \E plan \in SinkPlans, build \in BuildsAt(w_byte_offset) : PadToByteCall(plan, build)
    /\ UNCHANGED svars

FrontPadToByte ==
    /\ WAlive /\ BitsSoFar <= MaxBits
    /\ \E plan \in SinkPlans : FrontPadToByteCall(plan)
    /\ UNCHANGED svars

Flush ==
    /\ WAlive
    /\ \E plan \in SinkPlans, build \in BuildsAt(w_byte_offset) : FlushCall(plan, build)
    /\ UNCHANGED svars

\* A fresh Writer over an empty sink; the Reader is not in use.
WriterInit ==
    /\ phase = "write"
    /\ rt_log = <<>>
    /\ rt_back = <<>>
    /\ WIdle
    /\ ROpen(<<>>)

WriterNext ==
    \/ WriteBit \/ WriteBits \/ WriteByte \/ WriteBytes
    \/ PadToByte \/ FrontPadToByte \/ Flush

WriterSpec == WriterInit /\ [][WriterNext]_vars

----------------------------------------------------------------------------
(* A round trip: a fresh Writer makes up to MaxWrites writes and flushes,   *)
(* a fresh Reader is opened on the bytes that reached the stream and reads  *)
(* each write back with the matching call, in the same order.               *)

RtWriteBits ==
    /\ WMayWriteMany /\ w_res = "Ok" /\ w_last[1] # "flush"
    /\ Len(rt_log) < MaxWrites
    /\ \E plan \in SinkPlans, v \in Values, n \in Widths :
         /\ WriteBitsCall(plan, v, n)
         /\ rt_log' = Append(rt_log, <<"bits", v, n>>)
    /\ UNCHANGED <<phase, rt_back>>

RtWriteBytes ==
    /\ WMayWriteMany /\ w_res = "Ok" /\ w_last[1] # "flush"
    /\ Len(rt_log) < MaxWrites
    /\ \E plan \in SinkPlans, bs \in ByteSeqs :
         /\ WriteBytesCall(plan, bs)
         /\ rt_log' = Append(rt_log, <<"bytes", bs, Len(bs)>>)
    /\ UNCHANGED <<phase, rt_back>>

RtFlush ==
    /\ phase = "write" /\ w_res = "Ok" /\ w_last[1] # "flush"
    /\ \E plan \in SinkPlans : FlushCall(plan, "release")
    /\ UNCHANGED svars

\* Reader::new over the bytes the flush pushed through.
RtOpen ==
    /\ phase = "write" /\ w_res = "Ok" /\ w_last[1] = "flush"
    /\ phase' = "read"
    /\ stream' = SubSeq(sink, 1, w_flushed)
    /\ r_pos' = 0
    /\ r_byte' = ReaderNew.byte
    /\ r_byte_offset' = ReaderNew.byte_offset
    /\ r_last' = <<"new", 0>>
    /\ r_res' = "Ok"
    /\ r_out' = NoValue
    /\ r_pre' = [byte |-> 0, byte_offset |-> 8, pos |-> 0]
    /\ r_obs' = [fetches |-> 0, ext_max |-> -1, srcfail |-> FALSE]
    /\ r_bits' = 0
    /\ UNCHANGED <<wvars, rt_log, rt_back>>

\* The read that matches the next write of the log.
RtReadBack ==
    /\ phase = "read" /\ r_res = "Ok"
    /\ Len(rt_back) < Len(rt_log)
    /\ LET e == rt_log[Len(rt_back) + 1]
       IN  \E f \in FailAts :
             IF e[1] = "bits" THEN ReadBitsCall(f, e[3]) ELSE ReadBytesCall(f, e[3])
    /\ rt_back' = Append(rt_back, <<r_res', r_out'>>)
    /\ UNCHANGED <<phase, rt_log>>

RtInit ==
    /\ phase = "write"
    /\ rt_log = <<>>
    /\ rt_back = <<>>
    /\ WIdle
    /\ ROpen(<<>>)

RtNext == RtWriteBits \/ RtWriteBytes \/ RtFlush \/ RtOpen \/ RtReadBack

RoundTripSpec == RtInit /\ [][RtNext]_vars

----------------------------------------------------------------------------
(* A program that holds one of the two objects: a Reader over some stream   *)
(* or a Writer over an empty sink.                                          *)

Init == ReaderInit \/ WriterInit

Next == ReaderNext \/ WriterNext

Spec == Init /\ [][Next]_vars

----------------------------------------------------------------------------
(* What the claims speak of: bits of bytes and of the stream, positions.    *)

\* Bit j of byte b, bit 0 the least significant.
BitOfByte(b, j) == (b \div Pow2(j)) % 2

\* Bit i of the stream, counted from 0 in the order the bytes were written,
\* the most significant bit of each byte first.
StreamBit(i) == BitOfByte(stream[(i \div 8) + 1], 7 - (i % 8))

\* The reader's position in bits, from the bytes fetched and the offset.
RBitPos(pos, offset) == 8 * pos - (8 - offset)

\* Bit j (0 the least significant) of the n-bit number whose binary digits
\* are the stream's bits p, p+1, ..., p+n-1, the first the most significant.
ValueBit(p, n, j) == IF j < n THEN StreamBit(p + n - 1 - j) ELSE 0

\* That number as a u128: byte i of its 16 bytes, and the 16 bytes.
ValueByte(p, n, i) ==
    LET low == 8 * (16 - i)
    IN  ValueBit(p, n, low) + 2 * ValueBit(p, n, low + 1)
          + 4 * ValueBit(p, n, low + 2) + 8 * ValueBit(p, n, low + 3)
          + 16 * ValueBit(p, n, low + 4) + 32 * ValueBit(p, n, low + 5)
          + 64 * ValueBit(p, n, low + 6) + 128 * ValueBit(p, n, low + 7)
ValueOfBits(p, n) == [i \in 1..16 |-> ValueByte(p, n, i)]

\* A u128 below 2^24 as a number.
Low24(v) == 65536 * v[14] + 256 * v[15] + v[16]

\* C1: a fresh Writer that performs write_bytes(B) then flush, the sink never
\* failing, leaves exactly B in the sink, all of it pushed through, and a fresh
\* Reader over those bytes gets exactly B from read_bytes(len(B)) (unless its
\* source returns an I/O error).
C1_RoundTripBytes ==
    (Len(rt_log) = 1 /\ rt_log[1][1] = "bytes"
        /\ w_last[1] = "flush" /\ w_res = "Ok") =>
      LET B == rt_log[1][2]
      IN  /\ sink = B
          /\ w_flushed = Len(B)
          /\ phase = "read" => stream = B
          /\ Len(rt_back) = 1 =>
               \/ rt_back[1] = <<"Ok", B>>
               \/ r_obs.srcfail /\ rt_back[1] = <<"IoError", NoValue>>

C1_Witness ==
    /\ phase = "read"
    /\ rt_log = << <<"bytes", <<251, 85>>, 2>> >>
    /\ rt_back = << <<"Ok", <<251, 85>>>> >>
    /\ sink = <<251, 85>>

\* C2: k write_bit calls on a fresh Writer followed by flush, none failing,
\* leave ceil(k/8) bytes in the sink; bit i of the sequence is bit 7 - (i mod 8)
\* of byte floor(i/8), and the bits of the last byte below the last one written
\* are 0.
C2_WriterMsbFirst ==
    w_hist.shape = "flushed" =>
      LET k == Len(w_hist.bits)
      IN  /\ Len(sink) = (k + 7) \div 8
          /\ w_flushed = Len(sink)
          /\ \A i \in 0..(k - 1) :
               BitOfByte(sink[(i \div 8) + 1], 7 - (i % 8)) = w_hist.bits[i + 1]
          /\ \A i \in k..(8 * Len(sink) - 1) :
               BitOfByte(sink[(i \div 8) + 1], 7 - (i % 8)) = 0

C2_Witness ==
    /\ w_hist = [shape |-> "flushed", bits |-> <<1, 1, 1, 1, 1, 0, 1, 1, 0, 1>>]
    /\ sink = <<251, 64>>

\* C3: read_bits(n), n <= 128, called with at least n unread bits, returns
\* (unless the source returns an I/O error) the number whose n binary digits are
\* the next n unread bits of the stream, the first the most significant, and
\* moves the read position on by exactly n bits; 16 bits of [0x84, 0xC3] are
\* 33987.
C3_ReadBitsMsbFirst ==
    (r_last[1] = "read_bits" /\ r_last[2] <= 128) =>
      LET n == r_last[2]
          p == RBitPos(r_pre.pos, r_pre.byte_offset)
      IN  /\ (8 * Len(stream) - p >= n /\ ~r_obs.srcfail) => r_res = "Ok"
          /\ r_res = "Ok" =>
               /\ r_out = ValueOfBits(p, n)
               /\ RBitPos(r_pos, r_byte_offset) = p + n
               /\ (stream = <<132, 195>> /\ p = 0 /\ n = 16) => Low24(r_out) = 33987

C3_Witness ==
    /\ r_last = <<"read_bits", 16>>
    /\ r_res = "Ok"
    /\ stream = <<132, 195>>
    /\ r_pre.pos = 0
    /\ r_out = <<0, 0, 0, 0, 0, 0, 0, 0, 0, 0, 0, 0, 0, 0, 132, 195>>

\* C4: read_bits(n) and write_bits(v, n) return the invalid-width error for
\* every n > 128; with n = 128 read_bits succeeds when at least 128 bits are
\* unread and the source returns no error, and write_bits succeeds when the
\* sink accepts every byte.
C4_WidthBoundary ==
    /\ (r_last[1] = "read_bits" /\ r_last[2] > 128) => r_res = "InvalidData"
    /\ (r_last = <<"read_bits", 128>> /\ ~r_obs.srcfail
          /\ 8 * Len(stream) - RBitPos(r_pre.pos, r_pre.byte_offset) >= 128)
         => r_res = "Ok"
    /\ (w_last[1] = "write_bits" /\ w_last[3] > 128) => w_res = "InvalidData"
    /\ (w_last[1] = "write_bits" /\ w_last[3] = 128 /\ w_obs.sinkfail = "none")
         => w_res = "Ok"

C4_Witness ==
    /\ r_last = <<"read_bits", 128>>
    /\ r_res = "Ok"
    /\ r_pre.byte_offset = 3
    /\ r_obs.fetches = 16

\* C5: between operations, also after one returned an error of the sink,
\* byte_offset is in [0, 8): no completed byte stays in the pending byte.
C5_WriterOffsetInvariant == w_byte_offset \in 0..7

\* C6: byte_offset is in [0, 8] in every state, also after an error; a fresh
\* Reader starts at 8; no bit is extracted at an offset of 8, and a read_bit
\* called at 8 that succeeds has fetched one byte first and returns its front
\* bit.
C6_ReaderOffsetInvariant ==
    /\ r_byte_offset \in 0..8
    /\ r_last[1] = "new" => (r_byte_offset = 8 /\ r_pos = 0)
    /\ r_obs.ext_max <= 7
    /\ (r_last[1] = "read_bit" /\ r_pre.byte_offset = 8 /\ r_res = "Ok") =>
         /\ r_obs.fetches = 1
         /\ r_pos = r_pre.pos + 1
         /\ r_obs.ext_max = 0
         /\ r_byte_offset = 1
         /\ r_out = (StreamBit(8 * r_pre.pos) = 1)

C6_Witness ==
    /\ r_last[1] = "read_bit"
    /\ r_res = "Ok"
    /\ r_pre.byte_offset = 8
    /\ r_pre.pos = 1
    /\ r_obs.fetches = 1
    /\ r_byte_offset = 1

\* C7: pad_to_byte with k pending bits, 0 < k < 8, appends (unless the sink
\* fails) exactly one byte, the pending bits in its k high bits and 0 in the
\* 8 - k below, and leaves byte_offset = 0; with byte_offset = 0 it calls the
\* sink not at all and changes nothing.
C7_PadToByte ==
    [][ w_last'[1] = "pad_to_byte" =>
          /\ (w_byte_offset \in 1..7 /\ w_res' = "Ok") =>
               /\ w_byte < Pow2(w_byte_offset)
               /\ sink' = Append(sink, w_byte * Pow2(8 - w_byte_offset))
               /\ w_byte_offset' = 0
               /\ w_byte' = 0
          /\ (w_byte_offset \in 1..7 /\ w_obs'.sinkfail = "none") => w_res' = "Ok"
          /\ w_byte_offset = 0 =>
               /\ w_res' = "Ok"
               /\ w_obs'.calls = 0
               /\ <<sink, w_byte, w_byte_offset, w_flushed>>'
                    = <<sink, w_byte, w_byte_offset, w_flushed>>
      ]_vars

C7_Witness ==
    /\ w_last[1] = "pad_to_byte"
    /\ w_res = "Ok"
    /\ w_pre.byte_offset = 7
    /\ w_pre.byte = 127
    /\ sink = <<254>>
    /\ w_byte_offset = 0

\* C8: front_pad_to_byte with k pending bits, 0 <= k < 8, hands the sink the
\* pending byte as it is in one write: the k bits in its low positions, zeros
\* above (0x00 when k = 0); the sink taking it, it is the one byte appended and
\* pending byte and byte_offset are 0.
C8_FrontPadToByte ==
    [][ (w_last'[1] = "front_pad_to_byte" /\ w_byte_offset < 8) =>
          /\ w_byte < Pow2(w_byte_offset)
          /\ w_obs'.calls = 1
          /\ w_obs'.sinkfail = "none" => w_res' = "Ok"
          /\ w_res' = "Ok" =>
               /\ sink' = Append(sink, w_byte)
               /\ w_byte' = 0
               /\ w_byte_offset' = 0
      ]_vars

C8_Witness ==
    /\ w_last[1] = "front_pad_to_byte"
    /\ w_res = "Ok"
    /\ w_pre.byte_offset = 2
    /\ sink = <<1, 2>>
    /\ w_byte_offset = 0

\* C9: a flush that follows a flush that succeeded, no write between them,
\* appends no byte and leaves the sink and the writer's fields as they were.
C9_FlushIdempotent ==
    [][ (w_last[1] = "flush" /\ w_res = "Ok" /\ w_last'[1] = "flush") =>
          /\ <<sink, w_byte, w_byte_offset, w_flushed>>'
               = <<sink, w_byte, w_byte_offset, w_flushed>>
          /\ w_obs'.calls = 0
          /\ w_obs'.sinkfail = "none" => w_res' = "Ok"
      ]_vars

C9_Witness ==
    /\ w_last[1] = "flush"
    /\ w_res = "Ok"
    /\ w_pre.byte_offset = 0
    /\ w_pre.len = 2
    /\ w_pre.flushed = 2
    /\ Len(sink) = 2
    /\ w_flushed = 2

\* C10: read_bit at byte_offset = 8 on a source with no byte left returns the
\* unexpected-end-of-input error (the source answering with zero bytes rather
\* than an error of its own) and extracts nothing; read_bit does not return it
\* while a bit of the buffered byte is unread or a byte is left in the source.
C10_EndOfStream ==
    r_last[1] = "read_bit" =>
      /\ (r_pre.byte_offset = 8 /\ r_pre.pos = Len(stream) /\ ~r_obs.srcfail) =>
           /\ r_res = "UnexpectedEof"
           /\ r_obs.ext_max = -1
           /\ r_obs.fetches = 0
      /\ (r_pre.byte_offset < 8 \/ r_pre.pos < Len(stream)) =>
           r_res # "UnexpectedEof"

C10_Witness ==
    /\ r_last[1] = "read_bit"
    /\ r_res = "UnexpectedEof"
    /\ r_pre.byte_offset = 8
    /\ r_pre.pos = 2
    /\ Len(stream) = 2

\* The writer as the last operation found it, with the sink doing what it did
\* during that operation: its failure, if any, was at the last write tried.
WPreState ==
    [byte |-> w_pre.byte, byte_offset |-> w_pre.byte_offset,
     sink |-> SubSeq(sink, 1, w_pre.len), flushed |-> w_pre.flushed,
     fail |-> IF w_obs.sinkfail = "none" THEN 0 ELSE w_obs.calls,
     kind |-> IF w_obs.sinkfail = "none" THEN "err" ELSE w_obs.sinkfail,
     build |-> "release", err |-> "Ok", calls |-> 0, sinkfail |-> "none"]

\* What a caller sees of a writer record, against the state now.
WSameAsNow(w) ==
    /\ w.byte = w_byte
    /\ w.byte_offset = w_byte_offset
    /\ w.sink = sink
    /\ w.err = w_res

\* A caller's write_bit calls for bits hi, hi - 1, ..., lo of v, given up at
\* the first error.
RECURSIVE WriteBitCalls(_, _, _, _)
WriteBitCalls(w, v, hi, lo) ==
    IF hi < lo THEN w
    ELSE IF hi = lo
    THEN (IF w.err # "Ok" THEN w ELSE write_bit(w, TestBit(v, hi)))
    ELSE LET mid == (hi + lo) \div 2
             upper == WriteBitCalls(w, v, hi, mid + 1)
         IN  IF upper.err # "Ok" THEN upper
             ELSE WriteBitCalls(upper, v, mid, lo)

\* v mod 2^n: byte i of the 16, and the value.
LowBitsByte(v, n, i) ==
    LET low == 8 * (U128Bytes - i)
    IN  IF n >= low + 8 THEN v[i]
        ELSE IF n <= low THEN 0
        ELSE v[i] % Pow2(n - low)
LowBits(v, n) == [i \in 1..U128Bytes |-> LowBitsByte(v, n, i)]

\* C11: write_bits(v, n), n <= 128, leaves the sink, the pending byte, the
\* offset and the result that n write_bit calls leave, bit n - 1 of v first
\* and bit 0 last (given up at the first error), from every state: and those
\* that write_bits(v mod 2^n, n) leaves.
C11_WriteBitsAsWriteBit ==
    (w_last[1] = "write_bits" /\ w_last[3] <= MaxWidth) =>
      LET v == w_last[2]
          n == w_last[3]
      IN  /\ WSameAsNow(WriteBitCalls(WPreState, v, n - 1, 0))
          /\ WSameAsNow(write_bits(WPreState, LowBits(v, n), n))

C11_Witness ==
    /\ w_last = <<"write_bits", TestNum, 3>>
    /\ w_res = "Ok"
    /\ w_pre.byte_offset = 2
    /\ w_pre.byte = 2
    /\ w_byte_offset = 5
    /\ w_byte = 21
    /\ LowBits(TestNum, 3) = FromU8(5)

\* The last operation's last write of the sink was answered with zero bytes
\* accepted (and not its flush of the sink with an error).
WriteTookNothing ==
    /\ w_obs.sinkfail = "zero"
    /\ Len(sink) = w_pre.len + w_obs.calls - 1

\* C12: the sink answering a write with zero bytes accepted, the operation
\* returns the wrote-nothing error; write_bit and front_pad_to_byte have tried
\* exactly one write; write_bits, write_byte, write_bytes, pad_to_byte and
\* flush have taken in no bit after the one that completed the refused byte,
\* have tried no further write and return the same error.
C12_ZeroByteWrite ==
    WriteTookNothing =>
      /\ w_res = "WriteZero"
      /\ w_last[1] \in {"write_bit", "front_pad_to_byte"} => w_obs.calls = 1
      /\ (w_last[1] # "front_pad_to_byte" /\ w_pre.byte_offset < 8) =>
           BitsSoFar = 8 * (w_pre.len + w_obs.calls)
      /\ w_flushed = w_pre.flushed

C12_Witness ==
    /\ w_last = <<"write_bytes", <<251, 85>>>>
    /\ w_res = "WriteZero"
    /\ w_pre.byte_offset = 3
    /\ w_obs = [calls |-> 2, sinkfail |-> "zero"]
    /\ Len(sink) = w_pre.len + 1

\* The bits the first k writes of the log put out.
RECURSIVE LogBits(_)
LogBits(k) ==
    IF k = 0 THEN 0
    ELSE LogBits(k - 1)
           + (IF rt_log[k][1] = "bits" THEN rt_log[k][3] ELSE 8 * rt_log[k][3])

\* C13: a fresh Writer's write_bits(v_i, n_i), n_i <= 128, in order and a
\* flush, none failing, put out ceil(sum n_i / 8) bytes; a fresh Reader over
\* them gets v_i mod 2^(n_i) from read_bits(n_i) in the same order (unless its
\* source returns an I/O error), whether or not a value crosses a byte
\* boundary; after the last value fewer than 8 bits are left and all are 0.
C13_UnalignedRoundTrip ==
    /\ \A i \in 1..Len(rt_back) :
         rt_log[i][1] = "bits" =>
           \/ rt_back[i] = <<"Ok", LowBits(rt_log[i][2], rt_log[i][3])>>
           \/ /\ i = Len(rt_back)
              /\ r_obs.srcfail
              /\ rt_back[i] = <<"IoError", NoValue>>
    /\ phase = "read" => Len(stream) = (LogBits(Len(rt_log)) + 7) \div 8
    /\ (phase = "read" /\ Len(rt_back) = Len(rt_log) /\ r_res = "Ok") =>
         LET p == RBitPos(r_pos, r_byte_offset)
         IN  /\ p = LogBits(Len(rt_log))
             /\ 8 * Len(stream) - p \in 0..7
             /\ \A j \in p..(8 * Len(stream) - 1) : StreamBit(j) = 0
             /\ r_byte = 0

C13_Witness ==
    /\ rt_log = << <<"bits", TestNum, 3>>, <<"bits", TestNum, 16>> >>
    /\ stream = <<163, 225, 160>>
    /\ rt_back = << <<"Ok", FromU8(5)>>,
                    <<"Ok", <<0, 0, 0, 0, 0, 0, 0, 0, 0, 0, 0, 0, 0, 0, 31, 13>>>> >>

\* The number whose binary digits are bits[first..last], the first the most
\* significant (0 for an empty range).
RECURSIVE BitsValue(_, _, _)
BitsValue(bits, first, last) ==
    IF first > last THEN 0
    ELSE 2 * BitsValue(bits, first, last - 1) + bits[last]

\* C14: the k-th of k successful write_bit calls on a fresh Writer (nothing
\* else called) leaves floor(k/8) bytes in the sink, byte_offset = k mod 8 and
\* the last k mod 8 bits in the low bits of the pending byte, zeros above; it
\* tries one write of the sink when k is a multiple of 8, appending the byte of
\* the last 8 bits, and none otherwise, and leaves the bytes before it alone.
C14_ImmediateEmit ==
    [][ (w_last'[1] = "write_bit" /\ w_hist'.shape = "bits") =>
          LET bits == w_hist'.bits
              k == Len(bits)
          IN  /\ Len(sink') = k \div 8
              /\ w_byte_offset' = k % 8
              /\ w_byte' = BitsValue(bits, k - (k % 8) + 1, k)
              /\ w_byte' < Pow2(k % 8)
              /\ sink' = IF k % 8 = 0
                         THEN Append(sink, BitsValue(bits, k - 7, k))
                         ELSE sink
              /\ w_obs'.calls = IF k % 8 = 0 THEN 1 ELSE 0
      ]_vars

C14_Witness ==
    /\ w_hist = [shape |-> "bits", bits |-> <<1, 1, 1, 1, 1, 0, 1, 1, 0, 1>>]
    /\ w_last = <<"write_bit", 1>>
    /\ sink = <<251>>
    /\ w_byte_offset = 2
    /\ w_byte = 1

\* C15: Reader::new takes no byte from the source; a read_bit takes one byte
\* when byte_offset = 8 (and the source has one and returns no error) and
\* none, without asking the source, when byte_offset < 8; after k read_bit calls that returned a bit, ceil(k/8)
\* bytes have been taken and byte_offset is 8 if k = 0, else ((k-1) mod 8) + 1.
C15_LazyRefill ==
    /\ r_last[1] = "new" => (r_pos = 0 /\ r_bits = 0)
    /\ r_pos = (r_bits + 7) \div 8
    /\ r_byte_offset = IF r_bits = 0 THEN 8 ELSE ((r_bits - 1) % 8) + 1
    /\ r_last[1] = "read_bit" =>
         /\ r_pos = r_pre.pos + r_obs.fetches
         /\ r_pre.byte_offset < 8 => (r_obs.fetches = 0 /\ r_res = "Ok")
         /\ r_pre.byte_offset = 8 => r_obs.fetches = IF r_res = "Ok" THEN 1 ELSE 0
         /\ (r_pre.byte_offset = 8 /\ r_pre.pos < Len(stream) /\ ~r_obs.srcfail) =>
              r_res = "Ok"

C15_Witness ==
    /\ r_last[1] = "read_bit"
    /\ r_res = "Ok"
    /\ r_bits = 9
    /\ r_pos = 2
    /\ r_byte_offset = 1
    /\ r_obs.fetches = 1

\* The bits the last call asked for, and the bits not yet read.
RAskedBits(call) == IF call[1] = "read_bytes" THEN 8 * call[2] ELSE call[2]
RUnread(pos, offset) == 8 * Len(stream) - RBitPos(pos, offset)

\* C16: read_bits(n), n <= 128, or read_bytes(n) called with fewer unread bits
\* than it asks for returns (unless the source returns an I/O error) the
\* unexpected-end-of-input error and no value, and leaves every byte taken and
\* byte_offset = 8; from there every call leaves the reader so, and a read_bit
\* returns unexpected-end-of-input again.
C16_MidOperationEof ==
    [][ /\ ( /\ r_last'[1] \in {"read_bits", "read_bytes"}
             /\ r_last'[1] = "read_bits" => r_last'[2] <= MaxWidth
             /\ RUnread(r_pos, r_byte_offset) < RAskedBits(r_last')
             /\ ~r_obs'.srcfail ) =>
             /\ r_res' = "UnexpectedEof"
             /\ r_out' = NoValue
             /\ r_pos' = Len(stream)
             /\ r_byte_offset' = 8
             /\ r_bits' = r_bits + RUnread(r_pos, r_byte_offset)
        /\ (r_pos = Len(stream) /\ r_byte_offset = 8) =>
             /\ r_pos' = r_pos
             /\ r_byte_offset' = 8
             /\ (r_last'[1] = "read_bit" /\ ~r_obs'.srcfail) =>
                  (r_res' = "UnexpectedEof" /\ r_out' = NoValue)
      ]_vars

C16_Witness ==
    /\ r_last = <<"read_bits", 16>>
    /\ r_res = "UnexpectedEof"
    /\ Len(stream) = 2
    /\ r_pre.byte_offset = 3
    /\ r_pre.pos = 1
    /\ r_pos = 2
    /\ r_byte_offset = 8
    /\ r_bits = 16

\* C17: in every state, after whatever operations and failures of the sink,
\* byte_offset <= 8, so that 8 - byte_offset in pad_to_byte (called directly
\* or by flush) does not overflow: the call neither panics nor has the wrapped
\* width refused by write_bits.
C17_PadArithmeticSafe ==
    /\ w_byte_offset <= 8
    /\ w_last[1] \in {"pad_to_byte", "flush"} =>
         /\ w_pre.byte_offset <= 8
         /\ w_res \notin {"panic", "InvalidData"}

\* C18: read_bits(n) with n > 128 returns the invalid-width error having taken
\* no byte from the source and leaves the buffered byte, byte_offset and the
\* position as they were; write_bits(v, n) with n > 128 returns it having tried
\* no write of the sink and leaves the sink, the pending byte and byte_offset
\* as they were: the next operation finds the state the call found.
C18_InvalidWidthNoChange ==
    [][ /\ (r_last'[1] = "read_bits" /\ r_last'[2] > MaxWidth) =>
             /\ r_res' = "InvalidData"
             /\ r_out' = NoValue
             /\ r_obs'.fetches = 0
             /\ r_obs'.ext_max = -1
             /\ <<r_pos, r_byte, r_byte_offset, r_bits>>'
                  = <<r_pos, r_byte, r_byte_offset, r_bits>>
        /\ (w_last'[1] = "write_bits" /\ w_last'[3] > MaxWidth) =>
             /\ w_res' = "InvalidData"
             /\ w_obs'.calls = 0
             /\ <<sink, w_byte, w_byte_offset, w_flushed>>'
                  = <<sink, w_byte, w_byte_offset, w_flushed>>
      ]_vars

C18_Witness ==
    /\ w_last = <<"write_bits", TestNum, 200>>
    /\ w_res = "InvalidData"
    /\ w_pre.byte_offset = 3
    /\ w_pre.byte = 5
    /\ w_byte_offset = 3
    /\ w_byte = 5
    /\ sink = <<>>

\* The reader's and the writer's fields are as the last operation found them.
RUntouched ==
    /\ r_obs.fetches = 0
    /\ r_obs.ext_max = -1
    /\ [byte |-> r_byte, byte_offset |-> r_byte_offset, pos |-> r_pos] = r_pre
WUntouched ==
    /\ w_obs.calls = 0
    /\ [byte |-> w_byte, byte_offset |-> w_byte_offset, len |-> Len(sink),
        flushed |-> w_flushed] = w_pre

\* C19: read_bits(0) returns 0 and read_bytes(0) the empty sequence, whatever
\* the source would do and also with the source empty and byte_offset = 8,
\* taking no byte and leaving the reader as it was; write_bits(v, 0) and
\* write_bytes of no bytes return Ok, writing nothing to the sink and leaving
\* the writer as it was.
C19_ZeroWidthNoOp ==
    /\ r_last = <<"read_bits", 0>> =>
         (r_res = "Ok" /\ r_out = Zero128 /\ RUntouched)
    /\ r_last = <<"read_bytes", 0>> =>
         (r_res = "Ok" /\ r_out = <<>> /\ RUntouched)
    /\ (w_last[1] = "write_bits" /\ w_last[3] = 0) =>
         (w_res = "Ok" /\ WUntouched)
    /\ w_last = <<"write_bytes", <<>>>> =>
         (w_res = "Ok" /\ WUntouched)

C19_Witness ==
    /\ r_last = <<"read_bytes", 0>>
    /\ r_res = "Ok"
    /\ r_out = <<>>
    /\ Len(stream) = 2
    /\ r_pos = 2
    /\ r_byte_offset = 8

====
